---- MODULE Spec2Model ----
(***************************************************************************)
(* State-machine model of pytest_async_mongodb/plugin.py: the async        *)
(* adaptation layer (wrapper, AsyncClassMethod), the collection facade     *)
(* (find_one, delete_one, _delete), the database/client facades            *)
(* (get_collection, get_database) and the fixture pipeline (async_mongodb, *)
(* clean_database, load_fixtures, load_fixture) with the module-level      *)
(* _cache.                                                                 *)
(*                                                                         *)
(* Strings that the code takes apart (file names, collection names, the    *)
(* single-value marker) are sequences of one-character strings.  Python's  *)
(* None is the string "None" where it is a document value, and the empty   *)
(* sequence where it is a returned "no document".                          *)
(***************************************************************************)
EXTENDS Integers, Sequences, FiniteSets, TLC

VARIABLES
    dir,              \* entries of the fixture directory (os.listdir)
    _cache,           \* plugin._cache: path -> parsed documents
    reads,            \* path -> number of codecs.open + loader calls so far
    listed,           \* number of os.listdir calls so far
    invocations,      \* number of async_mongodb invocations so far
    pc,               \* position of the single cooperative task
    data,             \* async_mongodb.data / load_fixtures.collections
    not_drop_exists,  \* whether the not_drop_exists marker is present
    in_fixture,       \* TRUE while the running pipeline was started by the fixture
    names,            \* clean_database: names still to drop
    todo,             \* load_fixtures: directory entries still to visit
    cur,              \* load_fixture: collection, path, format, documents left
    client,           \* identity of the AsyncMockMongoClient of this test
    db,               \* identity of the AsyncDatabase handed to the test
    _databases,       \* client._databases: name -> AsyncDatabase identity
    _collections,     \* database identity -> (name -> AsyncCollection identity)
    nextId,           \* next fresh object identity: <<invocation, serial>>
    _store,           \* store of db: created collection name -> documents in order
    pending,          \* the coroutine object created and not yet awaited
    result,           \* outcome of the last completed call of the test body
    first,            \* <<owner, name>> -> identity the first request returned
    seeded,           \* collections the running load_fixtures inserted into
    pre,              \* _store as it was when the running load_fixtures began
    ops               \* operations the test body has performed in this test

vars == <<dir, _cache, reads, listed, invocations, pc, data, not_drop_exists,
          in_fixture, names, todo, cur, client, db, _databases, _collections,
          nextId, _store, pending, result, first, seeded, pre, ops>>

fixtureVars == <<dir, _cache, reads, listed, invocations, data, not_drop_exists,
                 in_fixture, names, todo, cur, seeded, pre>>

facadeVars == <<client, db, _databases, _collections, nextId, first>>

----------------------------------------------------------------------------
(* Bounds *)

MaxInvocations == 2     \* fixture invocations in one process
MaxOps == 2             \* test-body operations per test in the fixture model
MaxObjects == 8         \* facade objects allocated in the facade model

----------------------------------------------------------------------------
(* Values *)

None == "None"
Ids == {"i1", "i2"}
IdValues == Ids \cup {None}
Vals == {"x", "y"}
Doc(i, w) == [_id |-> i, v |-> w]
Docs == {Doc(i, w) : i \in IdValues, w \in Vals}

Max(S) == CHOOSE m \in S : \A n \in S : n <= m
Min(S) == CHOOSE m \in S : \A n \in S : m <= n
Range(s) == {s[i] : i \in DOMAIN s}

----------------------------------------------------------------------------
(* Names and the fixture directory *)

N_ab == <<"a", "b">>
N_a == <<"a">>
N_b == <<"b">>
N_c == <<"c">>
Names == {N_ab, N_a, N_b, N_c}

json == <<"j", "s", "o", "n">>
yaml == <<"y", "a", "m", "l">>
JSON_upper == <<"J", "S", "O", "N">>

F_ab_json == N_ab \o <<".">> \o json
F_ab_yaml == N_ab \o <<".">> \o yaml
F_a_json == N_a \o <<".">> \o json
F_b_json == N_b \o <<".">> \o json
F_c_yaml == N_c \o <<".">> \o yaml
F_c_JSON == N_c \o <<".">> \o JSON_upper
F_dot_json == <<".">> \o json

AllFiles == {F_ab_json, F_ab_yaml, F_a_json, F_b_json, F_c_yaml, F_c_JSON, F_dot_json}

\* The directories a run starts on.
Directories ==
    {{F_ab_json, F_ab_yaml, F_a_json}, {F_ab_json, F_c_yaml, F_c_JSON},
     {F_b_json, F_dot_json, F_ab_json}, {}}

\* What is on disk in each file: whether the loader can parse it, and the
\* documents it then yields.  Every fixture document carries its _id, so
\* insert_one has none to generate.
FileContent(file_name) ==
    CASE file_name = F_ab_json -> [ok |-> TRUE, docs |-> <<Doc("i1", "x"), Doc("i2", "x")>>]
      [] file_name = F_ab_yaml -> [ok |-> TRUE, docs |-> <<Doc("i1", "y")>>]
      [] file_name = F_a_json -> [ok |-> TRUE, docs |-> <<Doc("i2", "y")>>]
      [] file_name = F_b_json -> [ok |-> TRUE, docs |-> <<Doc("i1", "x"), Doc("i1", "y")>>]
      [] file_name = F_c_yaml -> [ok |-> FALSE, docs |-> <<>>]
      [] file_name = F_c_JSON -> [ok |-> TRUE, docs |-> <<Doc(None, "x")>>]
      [] OTHER -> [ok |-> TRUE, docs |-> <<Doc("i1", "x")>>]

option_dir == <<>>          \* --async_mongodb-fixture-dir not given
ini_dir == <<"d">>          \* async_mongodb_fixture_dir
basedir == IF option_dir # <<>> THEN option_dir ELSE ini_dir

\* os.path.join(basedir, file_name)
join(base, file_name) == base \o <<"/">> \o file_name

\* the file name a path of the fixture directory was joined from
FileOf(path) == SubSeq(path, Len(basedir) + 2, Len(path))

Paths == {join(basedir, f) : f \in AllFiles}

\* str.rfind, 1-based, 0 when absent
rfind(p, ch) ==
    LET I == {i \in 1..Len(p) : p[i] = ch}
    IN IF I = {} THEN 0 ELSE Max(I)

\* os.path.basename
basename(p) == SubSeq(p, rfind(p, "/") + 1, Len(p))

\* os.path.splitext: split at the last dot unless only dots precede it
splitext(p) ==
    LET sepIndex == rfind(p, "/")
        dotIndex == rfind(p, ".")
    IN IF dotIndex > sepIndex /\ \E i \in (sepIndex + 1)..(dotIndex - 1) : p[i] # "."
         THEN <<SubSeq(p, 1, dotIndex - 1), SubSeq(p, dotIndex, Len(p))>>
         ELSE <<p, <<>>>>

\* str.strip(ch)
strip(s, ch) ==
    LET I == {i \in 1..Len(s) : s[i] # ch}
    IN IF I = {} THEN <<>> ELSE SubSeq(s, Min(I), Max(I))

\* a in b for two str
IsSubstring(a, b) ==
    \E i \in 0..(Len(b) - Len(a)) : SubSeq(b, i + 1, i + Len(a)) = a

----------------------------------------------------------------------------
(* Marker data *)

NoData == [kind |-> "none", names |-> {}, value |-> <<>>]
SetData(S) == [kind |-> "set", names |-> S, value |-> <<>>]
StrData(s) == [kind |-> "str", names |-> {}, value |-> s]

\* what a test declares: no collections marker, a list of names, or one name
Markers ==
    {[present |-> FALSE, list |-> FALSE, arg |-> <<>>]}
    \cup {[present |-> TRUE, list |-> TRUE, arg |-> l] :
            l \in {<<>>, <<N_ab>>, <<N_b>>, <<N_ab, N_ab>>, <<N_ab, N_c>>}}
    \cup {[present |-> TRUE, list |-> FALSE, arg |-> s] : s \in {N_ab, <<>>}}

\* async_mongodb, lines 165-172
MarkerData(marker) ==
    IF ~marker.present THEN NoData
    ELSE IF marker.list THEN SetData(Range(marker.arg))
    ELSE StrData(marker.arg)

\* bool(fixtures)
Truthy(fixtures) ==
    IF fixtures.kind = "set" THEN fixtures.names # {} ELSE fixtures.value # <<>>

\* collection in fixtures
In(collection, fixtures) ==
    IF fixtures.kind = "set" THEN collection \in fixtures.names
    ELSE IsSubstring(collection, fixtures.value)

----------------------------------------------------------------------------
(* The store of a database *)

list_collection_names(store) == DOMAIN store

Contents(store, c) == IF c \in DOMAIN store THEN store[c] ELSE <<>>

drop_collection(store, name) == [c \in DOMAIN store \ {name} |-> store[c]]

\* Collection.insert_one: a duplicate _id is an error, otherwise the document
\* is appended and the collection exists from then on
insert_one(store, c, document) ==
    IF \E i \in DOMAIN Contents(store, c) : Contents(store, c)[i]._id = document._id
      THEN [err |-> "DuplicateKeyError", store |-> store]
      ELSE [err |-> None,
            store |-> [n \in DOMAIN store \cup {c} |->
                         IF n = c THEN Append(Contents(store, c), document) ELSE store[n]]]

----------------------------------------------------------------------------
(* Client and database facades *)

PYTEST == <<"p", "y", "t", "e", "s", "t">>
OTHER_DB == <<"o">>
DbNames == {PYTEST, OTHER_DB}

\* get_collection that never consults _collections
get_collection_fresh(colls, d, name, nid) ==
    [obj |-> nid,
     colls |-> [colls EXCEPT ![d] = [n \in DOMAIN colls[d] \cup {name} |->
                                       IF n = name THEN nid ELSE colls[d][n]]],
     nextId |-> <<nid[1], nid[2] + 1>>]

\* AsyncDatabase.get_collection: the cached instance, or a new one that is
\* cached under the name
get_collection(colls, d, name, nid) ==
    IF name \in DOMAIN colls[d]
      THEN [obj |-> colls[d][name], colls |-> colls, nextId |-> nid]
      ELSE [obj |-> nid,
            colls |-> [colls EXCEPT ![d] = (name :> nid) @@ colls[d]],
            nextId |-> <<nid[1], nid[2] + 1>>]

\* AsyncMockMongoClient.get_database: the cached instance, or a new
\* AsyncDatabase (with its own empty _collections) cached under the name
get_database(dbs, colls, name, nid) ==
    IF name \in DOMAIN dbs
      THEN [obj |-> dbs[name], dbs |-> dbs, colls |-> colls, nextId |-> nid]
      ELSE [obj |-> nid,
            dbs |-> (name :> nid) @@ dbs,
            colls |-> (nid :> <<>>) @@ colls,
            nextId |-> <<nid[1], nid[2] + 1>>]

\* the identity the first request for <<owner, name>> returned
Remember(f, owner, name, obj) ==
    IF <<owner, name>> \in DOMAIN f THEN f ELSE (<<owner, name>> :> obj) @@ f

----------------------------------------------------------------------------
(* Filters and the collection facade *)

FNone == [kind |-> "none", val |-> None, m |-> <<>>]
FVal(x) == [kind |-> "val", val |-> x, m |-> <<>>]
FMap(m) == [kind |-> "map", val |-> None, m |-> m]

MapFilters ==
    {FMap(<<>>)} \cup {FMap("_id" :> i) : i \in IdValues} \cup {FMap("v" :> w) : w \in Vals}
NonMappingFilters == {FNone} \cup {FVal(i) : i \in Ids}
Filters == MapFilters \cup NonMappingFilters

\* the normalisation without the isinstance(filter, Mapping) test
NormalizeFilter_nowrap(filter) ==
    IF filter.kind # "map" THEN FMap(<<>>) ELSE filter

\* find_one lines 75-78, _delete lines 103-106
NormalizeFilter(filter) ==
    IF filter.kind = "none" THEN FMap(<<>>)
    ELSE IF filter.kind # "map" THEN FMap("_id" :> filter.val)
    ELSE filter

\* the engine's query match of one document against a mapping
Matches(document, m) == \A k \in DOMAIN m : document[k] = m[k]

\* Collection.find: the matching documents in store order
find(store, c, filter) ==
    SelectSeq(Contents(store, c), LAMBDA d : Matches(d, filter.m))

\* AsyncCollection.find_one: the first match, or no document
find_one(store, c, filter) ==
    LET cursor == find(store, c, NormalizeFilter(filter))
    IN IF cursor = <<>> THEN <<>> ELSE <<Head(cursor)>>

\* del self._store[doc_id]
DelId(documents, doc_id) == SelectSeq(documents, LAMBDA d : d._id # doc_id)

\* the for loop of _delete over to_delete
RECURSIVE DeleteLoop(_, _, _, _)
DeleteLoop(documents, to_delete, multi, deleted_count) ==
    IF to_delete = <<>> THEN [documents |-> documents, n |-> deleted_count]
    ELSE IF ~multi
      THEN [documents |-> DelId(documents, Head(to_delete)._id), n |-> deleted_count + 1]
    ELSE DeleteLoop(DelId(documents, Head(to_delete)._id), Tail(to_delete), multi,
                    deleted_count + 1)

\* AsyncCollection._delete
_delete(store, c, filter, collation, hint, multi, session, cl) ==
    IF hint # None THEN [err |-> "NotImplementedError", store |-> store, value |-> <<>>]
    ELSE IF collation # None THEN [err |-> "NotImplementedError", store |-> store, value |-> <<>>]
    ELSE
      LET to_delete == find(store, c, NormalizeFilter(filter))
          r == DeleteLoop(Contents(store, c), to_delete, multi, 0)
      IN [err |-> None,
          store |-> IF to_delete = <<>> THEN store ELSE [store EXCEPT ![c] = r.documents],
          value |-> [connectionId |-> cl, n |-> r.n, ok |-> "1.0", err |-> None]]

\* delete_one that passes multi=True to _delete
delete_one_multi(store, c, filter, collation, hint, session, cl) ==
    LET r == _delete(store, c, filter, collation, hint, TRUE, session, cl)
    IN IF r.err # None THEN r
       ELSE [r EXCEPT !.value = [acknowledged |-> TRUE, raw_result |-> r.value,
                                 deleted_count |-> r.value.n]]

\* AsyncCollection.delete_one
delete_one(store, c, filter, collation, hint, session, cl) ==
    LET r == _delete(store, c, filter, collation, hint, FALSE, session, cl)
    IN IF r.err # None THEN r
       ELSE [r EXCEPT !.value = [acknowledged |-> TRUE, raw_result |-> r.value,
                                 deleted_count |-> r.value.n]]

\* Collection.update_one(filter, {'$set': {'v': w}}): the first match gets v = w
update_one(store, c, filter, w) ==
    LET I == {i \in DOMAIN Contents(store, c) : Matches(store[c][i], filter.m)}
    IN IF I = {} THEN store ELSE [store EXCEPT ![c][Min(I)].v = w]

----------------------------------------------------------------------------
(* The async adaptation layer *)

ASYNC_METHODS(cls) ==
    IF cls = "AsyncCollection"
      THEN {"find_one", "find", "count", "insert_one", "update_one", "_delete"}
      ELSE {"collection_names"}

\* the attributes object.__getattribute__ finds as bound methods
Methods(cls) ==
    IF cls = "AsyncCollection"
      THEN {"find_one", "find", "count", "insert_one", "update_one", "_delete", "delete_one"}
      ELSE {"collection_names", "list_collection_names", "drop_collection"}

\* the methods written as async def
CoroutineFunctions(cls) ==
    IF cls = "AsyncCollection" THEN {"find_one", "delete_one", "_delete"} ELSE {}

\* a wrapper that hands func back as it is
wrapper_plain(func) == func

\* wrapper(func): a coroutine function around func
wrapper(func) == [func EXCEPT !.wrapped = TRUE]

\* AsyncClassMethod.__getattribute__
getattribute(cls, name) ==
    LET attr == [name |-> name, method |-> name \in Methods(cls), wrapped |-> FALSE,
                 coroutinefunction |-> name \in CoroutineFunctions(cls)]
    IN IF attr.method /\ name \in ASYNC_METHODS(cls) THEN wrapper(attr) ELSE attr

\* calling the attribute returns a coroutine object instead of running it
ReturnsCoroutine(attr) == attr.wrapped \/ attr.coroutinefunction

NoCo == [op |-> "none"]
NoResult == [kind |-> "none"]

Co(cls, op, c, filter, collation, hint, multi, session, document) ==
    [cls |-> cls, op |-> op, coll |-> c, filter |-> filter, collation |-> collation,
     hint |-> hint, multi |-> multi, session |-> session, doc |-> document]

AnyDoc == Doc("i1", "x")

\* the underlying operation of a call, run to completion on a store
Run(co, store, cl) ==
    CASE co.op = "find_one" ->
           [err |-> None, store |-> store, value |-> find_one(store, co.coll, co.filter)]
      [] co.op = "find" ->
           [err |-> None, store |-> store, value |-> find(store, co.coll, co.filter)]
      [] co.op = "count" ->
           [err |-> None, store |-> store, value |-> Len(find(store, co.coll, co.filter))]
      [] co.op = "insert_one" ->
           LET r == insert_one(store, co.coll, co.doc)
           IN [err |-> r.err, store |-> r.store, value |-> co.doc._id]
      [] co.op = "update_one" ->
           [err |-> None, store |-> update_one(store, co.coll, co.filter, co.doc.v),
            value |-> IF find(store, co.coll, co.filter) = <<>> THEN 0 ELSE 1]
      [] co.op = "_delete" ->
           _delete(store, co.coll, co.filter, co.collation, co.hint, co.multi, co.session, cl)
      [] co.op = "delete_one" ->
           delete_one(store, co.coll, co.filter, co.collation, co.hint, co.session, cl)
      [] co.op = "drop_collection" ->
           [err |-> None, store |-> drop_collection(store, co.coll), value |-> <<>>]
      [] OTHER ->     \* collection_names, list_collection_names
           [err |-> None, store |-> store, value |-> list_collection_names(store)]

Outcome(co, r) ==
    [kind |-> IF r.err = None THEN "returned" ELSE "raised", call |-> co,
     err |-> r.err, value |-> r.value]

----------------------------------------------------------------------------
(* The fixture pipeline *)

NoCur == [collection |-> <<>>, path |-> <<>>, file_format |-> <<>>, cached |-> FALSE,
          docs |-> <<>>]

\* an async_mongodb that awaits clean_database whatever the marker
first_await_clean(nde) == "clean_database"

\* async_mongodb: what it awaits first, clean_database unless the
\* not_drop_exists marker is present
first_await(nde) == IF nde THEN "load_fixtures" ELSE "clean_database"

\* a load_fixtures without the early return
returns_early_never(collections) == FALSE

\* load_fixtures: "if collections is None: return"
returns_early(collections) == collections.kind = "none"

\* load_fixtures: what one directory entry is taken for
entry(file_name, fixtures) ==
    LET collection == splitext(basename(file_name))[1]
        ext == splitext(basename(file_name))[2]
        file_format == strip(ext, ".")
    IN [collection |-> collection,
        file_format |-> file_format,
        supported |-> file_format \in {json, yaml},
        selected |-> Truthy(fixtures) /\ In(collection, fixtures)]

\* a load_fixtures that loads into collections that exist
not_present_always(collection, store) == TRUE

\* load_fixtures: "if collection not in db.list_collection_names()"
not_present(collection, store) == collection \notin list_collection_names(store)

\* a load_fixture that never finds the path in the cache
cache_lookup_miss(cache, path) == [hit |-> FALSE, docs |-> <<>>]

\* load_fixture: "try: docs = _cache[path] / except KeyError"
cache_lookup(cache, path) ==
    IF path \in DOMAIN cache THEN [hit |-> TRUE, docs |-> cache[path]]
    ELSE [hit |-> FALSE, docs |-> <<>>]

\* async_mongodb up to its first await: the marker data, a fresh client and
\* its 'pytest' database
async_mongodb(marker, nde) ==
    /\ pc = "idle"
    /\ invocations < MaxInvocations
    /\ invocations' = invocations + 1
    /\ data' = MarkerData(marker)
    /\ not_drop_exists' = nde
    /\ LET cl == <<invocations + 1, 1>>
           g == get_database(<<>>, <<>>, PYTEST, <<invocations + 1, 2>>)
       IN /\ client' = cl
          /\ db' = g.obj
          /\ _databases' = g.dbs
          /\ _collections' = g.colls
          /\ nextId' = g.nextId
          /\ first' = Remember(<<>>, cl, PYTEST, g.obj)
    /\ _store' = <<>>
    /\ in_fixture' = TRUE
    /\ pc' = first_await(nde)
    /\ ops' = 0
    /\ UNCHANGED <<dir, _cache, reads, listed, names, todo, cur, pending, result, seeded, pre>>

\* clean_database: collections = db.list_collection_names()
clean_database ==
    /\ pc = "clean_database"
    /\ names' = list_collection_names(_store)
    /\ pc' = "drop"
    /\ UNCHANGED <<dir, _cache, reads, listed, invocations, data, not_drop_exists,
                   in_fixture, todo, cur, seeded, pre, _store, pending, result, ops>>
    /\ UNCHANGED facadeVars

\* clean_database: one round of the for loop
clean_database_loop ==
    /\ pc = "drop"
    /\ \E name \in names :
         /\ _store' = drop_collection(_store, name)
         /\ names' = names \ {name}
    /\ UNCHANGED <<dir, _cache, reads, listed, invocations, pc, data, not_drop_exists,
                   in_fixture, todo, cur, seeded, pre, pending, result, ops>>
    /\ UNCHANGED facadeVars

\* clean_database returns to async_mongodb (which goes on to load_fixtures) or
\* to the test body that called it
clean_database_return ==
    /\ pc = "drop"
    /\ names = {}
    /\ pc' = IF in_fixture THEN "load_fixtures" ELSE "test"
    /\ UNCHANGED <<fixtureVars, _store, pending, result, ops>>
    /\ UNCHANGED facadeVars

\* load_fixtures up to the directory listing
load_fixtures ==
    /\ pc = "load_fixtures"
    /\ pre' = _store
    /\ seeded' = {}
    /\ IF returns_early(data)
         THEN /\ pc' = "test"
              /\ UNCHANGED <<listed, todo>>
         ELSE /\ listed' = listed + 1
              /\ todo' = dir
              /\ pc' = "scan"
    /\ UNCHANGED <<dir, _cache, reads, invocations, data, not_drop_exists, in_fixture,
                   names, cur, _store, pending, result, ops>>
    /\ UNCHANGED facadeVars

\* load_fixtures: one round of the for loop over os.listdir(basedir), in the
\* order the operating system lists the entries
load_fixtures_loop ==
    /\ pc = "scan"
    /\ \E file_name \in todo :
         LET e == entry(file_name, data)
         IN /\ todo' = todo \ {file_name}
            /\ IF e.selected /\ e.supported /\ not_present(e.collection, _store)
                 THEN /\ cur' = [collection |-> e.collection,
                                 path |-> join(basedir, file_name),
                                 file_format |-> e.file_format, cached |-> FALSE,
                                 docs |-> <<>>]
                      /\ pc' = "load_fixture"
                 ELSE UNCHANGED <<cur, pc>>
    /\ UNCHANGED <<dir, _cache, reads, listed, invocations, data, not_drop_exists,
                   in_fixture, names, seeded, pre, _store, pending, result, ops>>
    /\ UNCHANGED facadeVars

\* load_fixtures returns once every entry was visited
load_fixtures_return ==
    /\ pc = "scan"
    /\ todo = {}
    /\ pc' = "test"
    /\ UNCHANGED <<fixtureVars, _store, pending, result, ops>>
    /\ UNCHANGED facadeVars

\* load_fixture up to the insert loop: the loader, the cache lookup, and on a
\* miss the read and parse that fill the cache
load_fixture ==
    /\ pc = "load_fixture"
    /\ IF cur.file_format \notin {json, yaml}
         THEN /\ pc' = "scan"
              /\ UNCHANGED <<_cache, reads, cur>>
         ELSE IF cache_lookup(_cache, cur.path).hit
           THEN /\ cur' = [cur EXCEPT !.docs = cache_lookup(_cache, cur.path).docs,
                                      !.cached = TRUE]
                /\ pc' = "insert"
                /\ UNCHANGED <<_cache, reads>>
           ELSE /\ reads' = [reads EXCEPT ![cur.path] = @ + 1]
                /\ IF FileContent(FileOf(cur.path)).ok
                     THEN /\ _cache' = (cur.path :> FileContent(FileOf(cur.path)).docs) @@ _cache
                          /\ cur' = [cur EXCEPT !.docs = FileContent(FileOf(cur.path)).docs]
                          /\ pc' = "insert"
                     ELSE /\ pc' = "failed"
                          /\ UNCHANGED <<_cache, cur>>
    /\ UNCHANGED <<dir, listed, invocations, data, not_drop_exists, in_fixture, names,
                   todo, seeded, pre, _store, pending, result, ops>>
    /\ UNCHANGED facadeVars

\* load_fixture: one round of "await db[collection].insert_one(document)"
load_fixture_insert ==
    /\ pc = "insert"
    /\ cur.docs # <<>>
    /\ LET g == get_collection(_collections, db, cur.collection, nextId)
           r == insert_one(_store, cur.collection, Head(cur.docs))
       IN /\ _collections' = g.colls
          /\ nextId' = g.nextId
          /\ first' = Remember(first, db, cur.collection, g.obj)
          /\ IF r.err # None
               THEN /\ pc' = "failed"
                    /\ UNCHANGED <<_store, cur, seeded>>
               ELSE /\ _store' = r.store
                    /\ cur' = [cur EXCEPT !.docs = Tail(cur.docs)]
                    /\ seeded' = seeded \cup {cur.collection}
                    /\ UNCHANGED pc
    /\ UNCHANGED <<dir, _cache, reads, listed, invocations, data, not_drop_exists,
                   in_fixture, names, todo, pre, pending, result, ops>>
    /\ UNCHANGED <<client, db, _databases>>

\* load_fixture returns to the loop of load_fixtures
load_fixture_return ==
    /\ pc = "insert"
    /\ cur.docs = <<>>
    /\ pc' = "scan"
    /\ UNCHANGED <<fixtureVars, _store, pending, result, ops>>
    /\ UNCHANGED facadeVars

----------------------------------------------------------------------------
(* The test body *)

\* obj.name(args) on the database handle or on db[coll]: a coroutine object
\* when the attribute is a coroutine function, the operation itself otherwise
Call(co) ==
    /\ pc = "test"
    /\ pending = NoCo
    /\ LET attr == getattribute(co.cls, co.op)
           g == IF co.cls = "AsyncCollection"
                  THEN get_collection(_collections, db, co.coll, nextId)
                  ELSE [obj |-> db, colls |-> _collections, nextId |-> nextId]
           r == Run(co, _store, client)
       IN /\ _collections' = g.colls
          /\ nextId' = g.nextId
          /\ first' = IF co.cls = "AsyncCollection"
                        THEN Remember(first, db, co.coll, g.obj) ELSE first
          /\ IF ReturnsCoroutine(attr)
               THEN /\ pending' = co
                    /\ result' = NoResult
                    /\ UNCHANGED _store
               ELSE /\ pending' = NoCo
                    /\ result' = Outcome(co, r)
                    /\ _store' = r.store
    /\ UNCHANGED <<fixtureVars, pc>>
    /\ UNCHANGED <<client, db, _databases>>

\* await of the pending coroutine object: the operation runs to completion
Await ==
    /\ pc = "test"
    /\ pending # NoCo
    /\ LET r == Run(pending, _store, client)
       IN /\ _store' = r.store
          /\ result' = Outcome(pending, r)
    /\ pending' = NoCo
    /\ UNCHANGED <<fixtureVars, pc, ops>>
    /\ UNCHANGED facadeVars

\* client.get_database(name), client[name]
client_get_database(name) ==
    /\ pc = "test"
    /\ pending = NoCo
    /\ LET g == get_database(_databases, _collections, name, nextId)
       IN /\ _databases' = g.dbs
          /\ _collections' = g.colls
          /\ nextId' = g.nextId
          /\ first' = Remember(first, client, name, g.obj)
          /\ result' = [kind |-> "object", owner |-> client, name |-> name, value |-> g.obj]
    /\ UNCHANGED <<fixtureVars, pc, _store, pending, ops, client, db>>

\* database.get_collection(name), database[name] on a database of the client
database_get_collection(d, name) ==
    /\ pc = "test"
    /\ pending = NoCo
    /\ d \in DOMAIN _collections
    /\ LET g == get_collection(_collections, d, name, nextId)
       IN /\ _collections' = g.colls
          /\ nextId' = g.nextId
          /\ first' = Remember(first, d, name, g.obj)
          /\ result' = [kind |-> "object", owner |-> d, name |-> name, value |-> g.obj]
    /\ UNCHANGED <<fixtureVars, pc, _store, pending, ops, client, db, _databases>>

\* the test body awaits clean_database(db) itself
call_clean_database ==
    /\ pc = "test"
    /\ pending = NoCo
    /\ ops < MaxOps
    /\ ops' = ops + 1
    /\ in_fixture' = FALSE
    /\ pc' = "clean_database"
    /\ result' = NoResult
    /\ UNCHANGED <<dir, _cache, reads, listed, invocations, data, not_drop_exists,
                   names, todo, cur, seeded, pre, _store, pending>>
    /\ UNCHANGED facadeVars

\* the test body awaits load_fixtures(db, config, collections) itself
call_load_fixtures(collections) ==
    /\ pc = "test"
    /\ pending = NoCo
    /\ ops < MaxOps
    /\ ops' = ops + 1
    /\ in_fixture' = FALSE
    /\ data' = collections
    /\ pc' = "load_fixtures"
    /\ result' = NoResult
    /\ UNCHANGED <<dir, _cache, reads, listed, invocations, not_drop_exists,
                   names, todo, cur, seeded, pre, _store, pending>>
    /\ UNCHANGED facadeVars

\* the test ends, in its body or in a failed setup; its object graph goes
end_test ==
    /\ pc \in {"test", "failed"}
    /\ pc' = "idle"
    /\ pending' = NoCo
    /\ result' = NoResult
    /\ _store' = <<>>
    /\ in_fixture' = FALSE
    /\ data' = NoData
    /\ not_drop_exists' = FALSE
    /\ names' = {}
    /\ todo' = {}
    /\ cur' = NoCur
    /\ seeded' = {}
    /\ pre' = <<>>
    /\ ops' = 0
    /\ client' = <<0, 0>>
    /\ db' = <<0, 0>>
    /\ _databases' = <<>>
    /\ _collections' = <<>>
    /\ nextId' = <<0, 1>>
    /\ first' = <<>>
    /\ UNCHANGED <<dir, _cache, reads, listed, invocations>>

----------------------------------------------------------------------------
(* Specification of the fixture pipeline: tests run one after another in   *)
(* one process; a test body may seed a collection and may call             *)
(* clean_database and load_fixtures on its handle.                         *)

SeedCalls ==
    {Co("AsyncCollection", "insert_one", c, FNone, None, None, FALSE, None, d) :
       c \in {N_ab}, d \in {Doc("i2", "y")}}

DirectData == {SetData({N_ab, N_c})}

seed(co) ==
    /\ ops < MaxOps
    /\ ops' = ops + 1
    /\ Call(co)

Init ==
    /\ dir \in Directories
    /\ _cache = <<>>
    /\ reads = [p \in Paths |-> 0]
    /\ listed = 0
    /\ invocations = 0
    /\ pc = "idle"
    /\ data = NoData
    /\ not_drop_exists = FALSE
    /\ in_fixture = FALSE
    /\ names = {}
    /\ todo = {}
    /\ cur = NoCur
    /\ client = <<0, 0>>
    /\ db = <<0, 0>>
    /\ _databases = <<>>
    /\ _collections = <<>>
    /\ nextId = <<0, 1>>
    /\ _store = <<>>
    /\ pending = NoCo
    /\ result = NoResult
    /\ first = <<>>
    /\ seeded = {}
    /\ pre = <<>>
    /\ ops = 0

Next ==
    \/ \E marker \in Markers, nde \in BOOLEAN : async_mongodb(marker, nde)
    \/ clean_database
    \/ clean_database_loop
    \/ clean_database_return
    \/ load_fixtures
    \/ load_fixtures_loop
    \/ load_fixtures_return
    \/ load_fixture
    \/ load_fixture_insert
    \/ load_fixture_return
    \/ \E co \in SeedCalls : seed(co)
    \/ Await
    \/ call_clean_database
    \/ \E collections \in DirectData : call_load_fixtures(collections)
    \/ end_test

Spec == Init /\ [][Next]_vars

----------------------------------------------------------------------------
(* Specification of the test body: the handle async_mongodb returns to a   *)
(* test without markers, and the collection operations the test performs   *)
(* on db['ab'] through the async adaptation layer.                         *)

OptionCombos ==
    {<<None, None, None>>, <<"given", None, None>>, <<None, "given", None>>,
     <<None, None, "given">>}

TestCalls ==
    {Co("AsyncCollection", "find_one", N_ab, f, None, None, FALSE, None, AnyDoc) :
       f \in Filters}
    \cup {Co("AsyncCollection", op, N_ab, f, None, None, FALSE, None, AnyDoc) :
            op \in {"find", "count"}, f \in {FMap(<<>>), FMap("v" :> "x")}}
    \cup {Co("AsyncCollection", "insert_one", N_ab, FNone, None, None, FALSE, None, d) :
            d \in Docs}
    \cup {Co("AsyncCollection", "update_one", N_ab, FMap("_id" :> "i1"), None, None, FALSE,
             None, Doc("i1", "y"))}
    \cup {Co("AsyncCollection", "_delete", N_ab, f, o[1], o[2], multi, o[3], AnyDoc) :
            f \in Filters, o \in OptionCombos, multi \in BOOLEAN}
    \cup {Co("AsyncCollection", "delete_one", N_ab, f, o[1], o[2], FALSE, o[3], AnyDoc) :
            f \in Filters, o \in OptionCombos}
    \cup {Co("AsyncDatabase", op, N_ab, FNone, None, None, FALSE, None, AnyDoc) :
            op \in {"collection_names", "list_collection_names", "drop_collection"}}

test_call(co) ==
    /\ Call(co)
    /\ UNCHANGED ops

InitTest ==
    /\ dir = {}
    /\ _cache = <<>>
    /\ reads = [p \in Paths |-> 0]
    /\ listed = 0
    /\ invocations = 1
    /\ pc = "test"
    /\ data = NoData
    /\ not_drop_exists = FALSE
    /\ in_fixture = TRUE
    /\ names = {}
    /\ todo = {}
    /\ cur = NoCur
    /\ client = <<1, 1>>
    /\ db = <<1, 2>>
    /\ _databases = (PYTEST :> <<1, 2>>)
    /\ _collections = (<<1, 2>> :> <<>>)
    /\ nextId = <<1, 3>>
    /\ _store = <<>>
    /\ pending = NoCo
    /\ result = NoResult
    /\ first = (<<<<1, 1>>, PYTEST>> :> <<1, 2>>)
    /\ seeded = {}
    /\ pre = <<>>
    /\ ops = 0

NextTest ==
    \/ \E co \in TestCalls : test_call(co)
    \/ Await

SpecTest == InitTest /\ [][NextTest]_vars

----------------------------------------------------------------------------
(* Specification of the facades: get_database / client[name] on the        *)
(* client, get_collection / db[name] on its databases, and inserts and     *)
(* drops that create and remove the stored collection behind a facade.     *)

FacadeNames == {N_ab, N_a}

FacadeCalls ==
    {Co("AsyncCollection", "insert_one", N_a, FNone, None, None, FALSE, None, AnyDoc),
     Co("AsyncDatabase", "drop_collection", N_a, FNone, None, None, FALSE, None, AnyDoc)}

facade_call(co) ==
    /\ nextId[2] < MaxObjects
    /\ Call(co)
    /\ UNCHANGED ops

facade_get_database(name) ==
    /\ nextId[2] < MaxObjects
    /\ client_get_database(name)

facade_get_collection(d, name) ==
    /\ nextId[2] < MaxObjects
    /\ database_get_collection(d, name)

NextFacade ==
    \/ \E name \in DbNames : facade_get_database(name)
    \/ \E d \in DOMAIN _collections, name \in FacadeNames : facade_get_collection(d, name)
    \/ \E co \in FacadeCalls : facade_call(co)
    \/ Await

SpecFacade == InitTest /\ [][NextFacade]_vars

----------------------------------------------------------------------------
(* Properties of the collection facade (SpecTest) *)

\* a document matches a filter as the caller wrote it: None matches every
\* document, a non-mapping value matches on _id, a mapping on each of its keys
FilterMatches(document, filter) ==
    CASE filter.kind = "none" -> TRUE
      [] filter.kind = "val" -> document._id = filter.val
      [] OTHER -> \A k \in DOMAIN filter.m : document[k] = filter.m[k]

RemoveAt(s, i) == SubSeq(s, 1, i - 1) \o SubSeq(s, i + 1, Len(s))

NoOptions(co) == co.collation = None /\ co.hint = None /\ co.session = None

\* the step that awaits the pending coroutine object
AwaitStep == pending # NoCo /\ pending' = NoCo

\* the step that creates a coroutine object
CreateStep == pending = NoCo /\ pending' # NoCo

\* C1: awaiting delete_one(f) without hint, collation or session removes
\* exactly min(N, 1) of the N documents matching f from the collection's
\* store; the removed document matched f, the others stay as they were and
\* in their order, and the result is acknowledged with deleted_count = n =
\* min(N, 1), ok = 1.0 and err = None; N = 0 is not an error.
C1_DeleteOneRemovesOne ==
    [][(AwaitStep /\ pending.op = "delete_one" /\ NoOptions(pending)) =>
         LET c == pending.coll
             before == Contents(_store, c)
             after == Contents(_store', c)
             M == {i \in DOMAIN before : FilterMatches(before[i], pending.filter)}
             k == IF M = {} THEN 0 ELSE 1
         IN /\ Len(after) = Len(before) - k
            /\ k = 1 => \E i \in M : after = RemoveAt(before, i)
            /\ k = 0 => _store' = _store
            /\ DOMAIN _store' = DOMAIN _store
            /\ \A o \in DOMAIN _store \ {c} : _store'[o] = _store[o]
            /\ result'.kind = "returned"
            /\ result'.call = pending
            /\ result'.value.acknowledged
            /\ result'.value.deleted_count = k
            /\ result'.value.raw_result.n = k
            /\ result'.value.raw_result.ok = "1.0"
            /\ result'.value.raw_result.err = None]_vars

\* delete_one({'v': 'x'}) returned deleted_count 1 and left another document
\* with v = 'x' and one with v = 'y' in the collection
C1_Witness ==
    /\ result.kind = "returned"
    /\ result.call.op = "delete_one"
    /\ result.call.filter = FMap("v" :> "x")
    /\ NoOptions(result.call)
    /\ result.value.deleted_count = 1
    /\ \E i, j \in DOMAIN Contents(_store, N_ab) :
         _store[N_ab][i].v = "x" /\ _store[N_ab][j].v = "y"

\* C2: a delete_one or _delete awaited with hint, collation or session
\* supplied raises NotImplementedError and leaves the store as it was.
C2_UnsupportedOptionRaises ==
    [][(AwaitStep /\ pending.op \in {"delete_one", "_delete"} /\ ~NoOptions(pending)) =>
         /\ result'.kind = "raised"
         /\ result'.err = "NotImplementedError"
         /\ _store' = _store]_vars

\* C7 as stated: for every non-mapping filter v, None included, find_one(v)
\* returns what find_one({'_id': v}) returns on the same collection, and
\* returns rather than raises when nothing matches.
C7_IdShorthandAnyValue ==
    (result.kind # "none" /\ result.call.op = "find_one" /\ result.call.filter.kind # "map") =>
        /\ result.kind = "returned"
        /\ result.value = find_one(_store, result.call.coll, FMap("_id" :> result.call.filter.val))

\* C7 amended: for every non-mapping filter v other than None, find_one(v)
\* returns what find_one({'_id': v}) returns: the stored document whose _id
\* is v, or no document, never an error; find_one(None) returns what
\* find_one({}) returns, the first stored document.
C7_IdShorthand ==
    (result.kind # "none" /\ result.call.op = "find_one" /\ result.call.filter.kind # "map") =>
        LET c == result.call.coll
            f == result.call.filter
            I == {i \in DOMAIN Contents(_store, c) : _store[c][i]._id = f.val}
        IN /\ result.kind = "returned"
           /\ f.kind = "val" =>
                /\ result.value = find_one(_store, c, FMap("_id" :> f.val))
                /\ result.value = IF I = {} THEN <<>> ELSE <<_store[c][Min(I)]>>
           /\ f.kind = "none" =>
                /\ result.value = find_one(_store, c, FMap(<<>>))
                /\ result.value = IF Contents(_store, c) = <<>> THEN <<>> ELSE <<_store[c][1]>>

\* find_one('i2') returned the document with _id 'i2' although another
\* document is stored before it
C7_Witness ==
    /\ result.kind = "returned"
    /\ result.call.op = "find_one"
    /\ result.call.filter = FVal("i2")
    /\ result.value # <<>>
    /\ result.value[1]._id = "i2"
    /\ _store[N_ab][1]._id # "i2"

\* C8: calling an operation named in ASYNC_METHODS creates a coroutine object
\* and runs nothing (the store and the facades' documents are as before, no
\* result exists); awaiting it runs the underlying operation once, to
\* completion, with exactly its result or its error; an operation of
\* ASYNC_METHODS never runs at call time, and an attribute that is neither in
\* ASYNC_METHODS nor an async def comes back unwrapped: calling it runs it.
C8_AsyncMethodsDeferred ==
    /\ [][CreateStep => (_store' = _store /\ result' = NoResult)]_vars
    /\ [][AwaitStep =>
            /\ result'.call = pending
            /\ _store' = Run(pending, _store, client).store
            /\ result'.err = Run(pending, _store, client).err
            /\ result'.value = Run(pending, _store, client).value]_vars
    /\ [][(pending = NoCo /\ pending' = NoCo /\ result'.kind # "none") =>
            result'.call.op \notin ASYNC_METHODS(result'.call.cls)]_vars
    /\ [][CreateStep =>
            pending'.op \in ASYNC_METHODS(pending'.cls) \cup CoroutineFunctions(pending'.cls)]_vars

\* insert_one was called on the empty collection and not yet awaited: the
\* coroutine object exists and the document is not stored
C8_Witness ==
    /\ pending # NoCo
    /\ pending.op = "insert_one"
    /\ Contents(_store, N_ab) = <<>>
    /\ result = NoResult

----------------------------------------------------------------------------
(* Properties of the facades (SpecFacade) *)

\* C6: a request for a name already requested on the same client or database
\* returns the instance the first request returned, and no cached database or
\* collection is ever replaced or evicted.
C6_FacadeIdempotent ==
    /\ [](result.kind = "object" =>
            result.value = first[<<result.owner, result.name>>])
    /\ [][client' = client =>
            /\ \A n \in DOMAIN _databases :
                 n \in DOMAIN _databases' /\ _databases'[n] = _databases[n]
            /\ \A d \in DOMAIN _collections :
                 /\ d \in DOMAIN _collections'
                 /\ \A n \in DOMAIN _collections[d] :
                      n \in DOMAIN _collections'[d] /\ _collections'[d][n] = _collections[d][n]]_vars

\* db['a'] was requested again after other objects were created, while no
\* stored collection 'a' exists, and the first instance came back
C6_Witness ==
    /\ result.kind = "object"
    /\ result.owner = db
    /\ result.name = N_a
    /\ result.value[2] + 1 < nextId[2]
    /\ N_a \notin DOMAIN _store
    /\ OTHER_DB \in DOMAIN _databases

----------------------------------------------------------------------------
(* Properties of the fixture pipeline (Spec) *)

\* the fixture is setting up: async_mongodb has not yet returned the handle
Setup ==
    in_fixture /\ pc \in {"clean_database", "drop", "load_fixtures", "scan", "load_fixture", "insert"}

\* async_mongodb has just returned the handle to the test body
Returned == in_fixture /\ pc = "test" /\ ops = 0 /\ pending = NoCo /\ result = NoResult

LoadPhases == {"scan", "load_fixture", "insert"}

\* the collection names a marker value asks for
Requested(fixtures) ==
    IF fixtures.kind = "set" THEN fixtures.names
    ELSE IF fixtures.kind = "str" /\ fixtures.value # <<>> THEN {fixtures.value}
    ELSE {}

\* the fixture files of collection c in the directory
FixtureFilesOf(c) == {f \in dir : f = c \o <<".">> \o json \/ f = c \o <<".">> \o yaml}

\* C3: without the not_drop_exists marker clean_database ends before
\* load_fixtures begins, no collection exists when loading begins and none is
\* dropped once a document was inserted; a collection is empty when its file
\* is about to be loaded; the documents of a file go in one by one in file
\* order; after setup a requested collection with one fixture file holds
\* exactly that file's documents in file order; with not_drop_exists the
\* fixture does not run clean_database and drops nothing.
C3_CleanThenLoad ==
    /\ []((Setup /\ ~not_drop_exists /\ pc = "load_fixtures") => _store = <<>>)
    /\ []((Setup /\ pc \in {"clean_database", "drop"}) => (seeded = {} /\ cur = NoCur))
    /\ []((Setup /\ pc = "load_fixture") => Contents(_store, cur.collection) = <<>>)
    /\ []((Setup /\ pc = "insert") =>
            Contents(_store, cur.collection) \o cur.docs = FileContent(FileOf(cur.path)).docs)
    /\ [][(Setup /\ pc = "insert" /\ pc' = "insert") =>
            Len(Contents(_store', cur.collection)) = Len(Contents(_store, cur.collection)) + 1]_vars
    /\ []((Returned /\ ~not_drop_exists) =>
            \A c \in Requested(data) :
              \A f \in FixtureFilesOf(c) :
                FixtureFilesOf(c) = {f} => Contents(_store, c) = FileContent(f).docs)
    /\ []((Setup /\ not_drop_exists) => pc \notin {"clean_database", "drop"})
    /\ [][(Setup /\ not_drop_exists) => DOMAIN _store \subseteq DOMAIN _store']_vars

\* the second fixture invocation of the process, without not_drop_exists and
\* with ['ab'] requested, returned a handle whose 'ab' holds the two
\* documents of ab.json, the only fixture file of 'ab'
C3_Witness ==
    /\ Returned
    /\ ~not_drop_exists
    /\ invocations = 2
    /\ data = SetData({N_ab})
    /\ FixtureFilesOf(N_ab) = {F_ab_json}
    /\ Contents(_store, N_ab) = <<Doc("i1", "x"), Doc("i2", "x")>>

\* C4: load_fixtures loads a file only into a collection that does not exist
\* when the file is considered; a collection that exists when load_fixtures
\* begins is not seeded and holds, all through the loading and when
\* load_fixtures returns, exactly the documents it held before.
C4_ExistingNotReseeded ==
    /\ [](pc = "load_fixture" => cur.collection \notin list_collection_names(_store))
    /\ [](pc \in LoadPhases =>
            /\ seeded \cap DOMAIN pre = {}
            /\ \A c \in DOMAIN pre : c \in DOMAIN _store /\ _store[c] = pre[c])
    /\ [](pc \in {"load_fixture", "insert"} => cur.collection \notin DOMAIN pre)
    /\ [][(pc \in LoadPhases) =>
            (\A c \in DOMAIN pre : c \in DOMAIN _store' /\ _store'[c] = pre[c])]_vars

\* load_fixtures, asked for 'ab' on a database whose 'ab' the test body had
\* seeded with one document, has visited every entry of a directory that has
\* ab.json, and 'ab' still holds that one document
C4_Witness ==
    /\ pc = "scan"
    /\ todo = {}
    /\ F_ab_json \in dir
    /\ N_ab \in Requested(data)
    /\ N_ab \in DOMAIN pre
    /\ pre[N_ab] = <<Doc("i2", "y")>>
    /\ _store[N_ab] = <<Doc("i2", "y")>>

\* the parts of C5 that hold as stated: an entry of _cache is never changed
\* or removed; the entry of a path is there, equal to the file's documents,
\* before any of them is inserted; a load of a cached path reads nothing and
\* uses the cached documents
CacheAppendOnly ==
    /\ [][\A p \in DOMAIN _cache : p \in DOMAIN _cache' /\ _cache'[p] = _cache[p]]_vars
    /\ [](pc = "insert" =>
            /\ cur.path \in DOMAIN _cache
            /\ _cache[cur.path] = FileContent(FileOf(cur.path)).docs)
    /\ [][(pc = "load_fixture" /\ cur.path \in DOMAIN _cache) =>
            (reads' = reads /\ _cache' = _cache /\ cur'.docs = _cache[cur.path])]_vars

\* C5 as stated: the cache is append-only, a path's entry is written before
\* its documents are inserted, later loads of the path reuse it without
\* reading, and so every fixture file is read at most once per process.
C5_ReadAtMostOnce ==
    /\ CacheAppendOnly
    /\ [](\A p \in Paths : reads[p] <= 1)

\* C5 amended: the cache is append-only, a path's entry is written before its
\* documents are inserted, later loads of the path reuse it without reading,
\* and so every fixture file that parses is read at most once per process; a
\* file whose parse fails gets no entry, and only such a file is read again.
C5_ParsedReadOnce ==
    /\ CacheAppendOnly
    /\ [](\A p \in Paths :
            /\ FileContent(FileOf(p)).ok => reads[p] <= 1
            /\ p \in DOMAIN _cache => reads[p] = 1
            /\ reads[p] > 1 => (~FileContent(FileOf(p)).ok /\ p \notin DOMAIN _cache))

\* the second fixture invocation loads a path from the cache: the documents
\* to insert came from _cache and the file was read once
C5_Witness ==
    /\ pc = "insert"
    /\ invocations = 2
    /\ cur.cached
    /\ cur.docs = _cache[cur.path]
    /\ cur.docs # <<>>
    /\ reads[cur.path] = 1

\* marker data that asks for nothing: no marker, an empty list, an empty name
Falsy(fixtures) == fixtures.kind = "none" \/ ~Truthy(fixtures)

\* what load_fixtures does for marker data that asks for nothing, apart from
\* listing the directory: no read, no change of the cache, no insert, and the
\* handle the fixture returns has an empty database
NothingLoaded ==
    /\ [][(Falsy(data) /\ pc \in {"load_fixtures"} \cup LoadPhases) =>
            (reads' = reads /\ _cache' = _cache /\ _store' = _store)]_vars
    /\ []((Falsy(data) /\ pc \in LoadPhases) => pc = "scan")
    /\ []((Returned /\ Falsy(data)) => (_store = <<>> /\ seeded = {}))

\* C9 as stated: when the requested set is absent or empty, load_fixtures
\* does not list the fixture directory, reads no file, leaves the cache as it
\* is and inserts nothing, and the database returned is empty.
C9_FalsyIsNoOp ==
    /\ NothingLoaded
    /\ [][(Falsy(data) /\ pc \in {"load_fixtures"} \cup LoadPhases) => listed' = listed]_vars

\* C9 amended: when there is no collections marker load_fixtures returns at
\* once without listing the fixture directory; when the marker gives an
\* empty list or an empty name it lists the directory once and visits every
\* entry; in both cases it reads no file, leaves the cache as it is and
\* inserts nothing, and the database returned is empty.
C9_AbsentOrEmpty ==
    /\ NothingLoaded
    /\ [][(data.kind = "none" /\ pc = "load_fixtures") =>
            (listed' = listed /\ pc' = "test")]_vars
    /\ [][(data.kind # "none" /\ Falsy(data) /\ pc = "load_fixtures") =>
            (listed' = listed + 1 /\ todo' = dir /\ pc' = "scan")]_vars
    /\ [][(Falsy(data) /\ pc \in LoadPhases) => listed' = listed]_vars

\* the fixture, given an empty list on a directory that has fixture files,
\* listed the directory and returned an empty database, nothing read
C9_Witness ==
    /\ Returned
    /\ data = SetData({})
    /\ dir # {}
    /\ listed = 1
    /\ _store = <<>>
    /\ \A p \in Paths : reads[p] = 0

\* C10: load_fixtures loads an entry only if its extension is json or yaml
\* and its name without the extension is one of the requested names, for a
\* list marker and for a single-name marker; no fixture document goes into a
\* collection that was not requested.
C10_OnlyRequestedLoaded ==
    /\ pc \in {"load_fixture", "insert"} =>
         /\ cur.file_format \in {json, yaml}
         /\ cur.collection \in Requested(data)
    /\ pc \in LoadPhases \cup {"test"} => seeded \subseteq Requested(data)

====
